---- MODULE Spec2Model ----
(***************************************************************************)
(* The deal-prioritization pipeline of agents/deal_orchestrator_agent.py   *)
(* (OrchestratorAgent.run_workflow and the four stage methods it awaits)   *)
(* as a state machine.  One step of the machine is one external HTTP call  *)
(* together with everything the coroutine does with the answer up to the   *)
(* next call (the backoff sleep included).                                 *)
(*                                                                         *)
(* Scales: a win probability p is held as the integer 100*p (0.8 -> 80),   *)
(* a sleep of s seconds as the integer 10*s (1.5 -> 15).                   *)
(***************************************************************************)
EXTENDS Integers, Sequences, FiniteSets, TLC

\* ------------------------------------------------------------------ bounds
\* Largest number of rows a Fetch answer carries.
MaxOpps == 2
\* Largest number of non-200 answers (faults) the collaborators give in a run.
MaxFaults == 5

\* ------------------------------------------------------- program constants
\* retry_config["max_retries"]
max_retries == 2
\* retry_config["backoff_factor"] = 1.5, in tenths of a second
backoff_factor == 15
\* the literal 0.8 of "if opp['winProbability'] > 0.8", as a percentage
HighPriorityThreshold == 80

\* What one external call can do: answer with a status of one of four
\* classes ("other" is any status that is neither 200, 4xx nor 5xx), or
\* raise a transport exception ("exc").
Outcomes == {"200", "4xx", "5xx", "other", "exc"}

\* Win probabilities a Score answer may attach (percent): at and above 0.8.
ProbSet == {80, 90}

\* amount of the opportunity with identifier i: distinct powers of two, so
\* that a sum of amounts identifies the set of opportunities summed.
Amount(i) == 2 ^ (i - 1)

\* The rows of a Fetch answer: n opportunities with distinct identifiers.
Rows(n) == [i \in 1..n |-> [id |-> i, amount |-> Amount(i)]]

\* The "scored" list of a Score answer: the submitted rows, each with a
\* winProbability.
Scored(rows, p) ==
    [i \in 1..Len(rows) |->
        [id |-> rows[i].id, amount |-> rows[i].amount, winProbability |-> p[i]]]

VARIABLES
    pc,                    \* the call the coroutine is about to make, or "done"
    attempt,               \* loop variable of the stage's "for attempt in range"
    idx,                   \* position of "for opp in scored_opportunities" (1-based)
    retry,                 \* loop variable of "for retry in range(max_retries)"
    opportunities,         \* run_workflow's local: rows returned by Fetch
    scored_opportunities,  \* run_workflow's local: list returned by Score
    high_priority_count,   \* update_salesforce's locals
    total_pipeline_value,
    updated_records,       \*   (a result object is held as its opportunity id)
    error_records,
    created_tasks,         \*   (a task is held as its WhatId)
    summary_result,        \* run_workflow's local: answer of WriteSummary
    result,                \* the dict run_workflow returns
    \* history of the run, read only by the properties
    failedAt,              \* stage whose exception reached run_workflow's except
    log,                   \* calls of the current call site, in order
    sleeps,                \* asyncio.sleep durations of the current call site
    called,                \* kinds of external call made so far
    returned,              \* stage methods that have returned a value
    faults,                \* number of non-200 outcomes so far
    payload,               \* body of the latest 200 answer of Fetch / Score
    hist,                  \* per opportunity: what its calls answered
    \* the conversational router of api.py
    sessions,              \* the module-level dict: session key -> context
    clock,                 \* datetime.now(), in whole seconds
    rpc,                   \* where process_query / process_with_agents is
    request,               \* the QueryRequest being served, with its session key
    state,                 \* process_with_agents' local state (input, next)
    error,                 \* the "error" of process_with_agents' return value
    response,              \* what process_query returned last
    \* history of the requests, read only by the properties
    hops,                  \* handlers invoked for this request, with the next each returned
    reqs,                  \* number of requests received so far
    handlers,              \* which handlers are in place: the real ones or stubs
    fallbacks,             \* direct fallback completions called for this request
    mock_mode,             \* DatabricksAgent.mock_mode
    last_response,         \* DatabricksAgent.last_response (by the opportunity it is about)
    app_pc,                \* integrated_app.run_workflow: "score", "done" ("off": not run)
    app_opportunities,     \* its local opportunities
    app_scored,            \* its local scored_opportunities
    app_result,            \* the dict it returns
    \* the chat of integrated_app.py (one browser session)
    st_context,            \* st.session_state.context, as the handlers see it
    st_history,            \* st.session_state.conversation_history
    chat_pc,               \* where process_user_message is ("off": the chat is not run)
    user_message,          \* its argument, as the keyword classes it contains
    chat_next,             \* its local next_agent
    chat_reply,            \* the pair it returned last
    \* history of the chat, read only by the properties
    chat_hops,             \* handlers invoked for this message
    chat_reqs,             \* number of messages received so far
    \* OrchestratorAgent.orchestrator_agent, the handler around run_workflow
    orch_pc,               \* where it is: "called", "running", "returned" ("off": not called)
    input_text,            \* its local input_text, state["input"]
    deal_workflow_result,  \* context["deal_workflow_result"] ("unset": no such key)
    orch_return            \* the dict it returns

pvars == <<pc, attempt, idx, retry, opportunities, scored_opportunities,
           high_priority_count, total_pipeline_value, updated_records,
           error_records, created_tasks, summary_result, result,
           failedAt, log, sleeps, called, returned, faults, payload, hist>>

rvars == <<sessions, clock, rpc, request, state, error, response, hops, reqs,
           handlers, fallbacks>>

avars == <<mock_mode, last_response, app_pc, app_opportunities, app_scored,
           app_result>>

cvars == <<st_context, st_history, chat_pc, user_message, chat_next, chat_reply,
           chat_hops, chat_reqs>>

ovars == <<orch_pc, input_text, deal_workflow_result, orch_return>>

vars == <<pvars, rvars, avars, cvars, ovars>>

sf_locals == <<high_priority_count, total_pipeline_value, updated_records,
               error_records, created_tasks>>

NoResult == [status |-> "none", opportunities |-> <<>>, tasks |-> <<>>,
             highPriorityCount |-> 0, totalPipelineValue |-> 0, errors |-> <<>>]

\* {"status": "error", "message": str(e)}: no other key is present.
ErrorResult == [NoResult EXCEPT !.status = "error"]

\* The dict of run_workflow's Step 5.
SuccessResult(scored, tasks, hp, total, errors) ==
    [status |-> "success", opportunities |-> scored, tasks |-> tasks,
     highPriorityCount |-> hp, totalPipelineValue |-> total, errors |-> errors]

\* ---------------------------------------------------------- retry policy
\* A constant backoff: the factor without the power of two.
backoff_time_constant(a) == backoff_factor

\* backoff_time = backoff_factor * (2 ** attempt)
backoff_time(a) == backoff_factor * (2 ^ a)

\* response.raise_for_status(): raises for a status of 400 and above.
raise_for_status(status) == status \in {"4xx", "5xx"}

\* Except with one retry too few (the bound compared off by one).
ExceptGivesUpEarly(a) == IF a + 1 < max_retries THEN "sleep" ELSE "raise"

\* Except that never re-raises: it sleeps and retries on every attempt.
ExceptNeverRaises(a) == "sleep"

\* "except Exception as e" of the three stage loops: sleep and go round
\* again while attempt < max_retries, re-raise on the last attempt.
Except(a) == IF a < max_retries THEN "sleep" ELSE "raise"

\* Leaving the try block without return, continue or exception: the for
\* loop goes on to the next attempt, and past the last one the statement
\* after the loop raises.
LoopEnd(a) == IF a < max_retries THEN "next" ELSE "raise"

\* One iteration of fetch_opportunities' loop on an answer.
fetch_opportunities(status, a) ==
    CASE status = "exc" -> Except(a)
      [] status = "200" -> "return"
      [] status = "5xx" /\ a < max_retries -> "sleep"
      [] OTHER -> IF raise_for_status(status) THEN Except(a) ELSE LoopEnd(a)

\* One iteration of score_opportunities' loop: every answer that is not a
\* 200 and not a 5xx with retries left raises inside the try block.
score_opportunities(status, a) ==
    CASE status = "exc" -> Except(a)
      [] status = "200" -> "return"
      [] status = "5xx" /\ a < max_retries -> "sleep"
      [] OTHER -> Except(a)

\* One iteration of write_summary's loop.
write_summary(status, a) ==
    CASE status = "exc" -> Except(a)
      [] status = "200" -> "return"
      [] status = "5xx" /\ a < max_retries -> "sleep"
      [] OTHER -> IF raise_for_status(status) THEN Except(a) ELSE LoopEnd(a)

\* run_workflow with the summary write in a "finally": a stage's exception
\* still leads to Step 4.
run_workflow_finally(stage, outcome) ==
    CASE outcome = "raise" /\ stage # "summary" -> "summary"
      [] outcome = "raise" -> "done"
      [] outcome = "return" /\ stage = "fetch" -> "score"
      [] outcome = "return" /\ stage = "score" -> "update"
      [] outcome = "return" /\ stage = "update" -> "summary"
      [] outcome = "return" /\ stage = "summary" -> "done"
      [] OTHER -> stage

\* run_workflow's sequencing: where control is after a stage's step.
run_workflow(stage, outcome) ==
    CASE outcome = "raise" -> "done"
      [] outcome = "return" /\ stage = "fetch" -> "score"
      [] outcome = "return" /\ stage = "score" -> "update"
      [] outcome = "return" /\ stage = "update" -> "summary"
      [] outcome = "return" /\ stage = "summary" -> "done"
      [] OTHER -> stage

\* ---------------------------------------------------- update_salesforce
\* The chain without its 4xx branch: a 4xx answer is dropped silently.
UpdateBranchDrops4xx(status) ==
    CASE status = "exc" -> "error"
      [] status = "200" -> "updated"
      [] status = "5xx" -> "retry"
      [] OTHER -> "skip"

\* The chain testing "status < 500" for success instead of "status == 200".
UpdateBranchBelow500(status) ==
    CASE status = "exc" -> "error"
      [] status \in {"200", "4xx", "other"} -> "updated"
      [] OTHER -> "retry"

\* The if / elif chain on the status of the first PATCH of an opportunity.
UpdateBranch(status) ==
    CASE status = "exc" -> "error"
      [] status = "200" -> "updated"
      [] status = "4xx" -> "error"
      [] status = "5xx" -> "retry"
      [] OTHER -> "skip"

\* The answer of the follow-up POST, made inside the 200 branch.
TaskBranch(status) ==
    CASE status = "exc" -> "error"
      [] status = "200" -> "created"
      [] OTHER -> "logged"

\* "if opp['winProbability'] > 0.8", reached when the POST did not raise.
Tracked(opp, branch) ==
    branch # "error" /\ opp.winProbability > HighPriorityThreshold

\* The retry loop without the "if not retry_success" block after it.
RetryBranchForgetsError(status, r) ==
    CASE status = "exc" -> "error"
      [] status = "200" -> "updated"
      [] r + 1 < max_retries -> "again"
      [] OTHER -> "skip"

\* The inline retry loop going on for as long as the PATCH answers 5xx.
RetryBranchNoLimit(status, r) ==
    CASE status = "exc" -> "error"
      [] status = "200" -> "updated"
      [] OTHER -> "again"

\* One iteration of the inline retry loop.
RetryBranch(status, r) ==
    CASE status = "exc" -> "error"
      [] status = "200" -> "updated"
      [] r + 1 < max_retries -> "again"
      [] OTHER -> "error"

\* ------------------------------------------------------------- history
Entry(call, id, status) == [call |-> call, id |-> id, status |-> status]

Budget(status) == status = "200" \/ faults < MaxFaults

Note(call, id, status, fresh) ==
    /\ log' = IF fresh THEN <<Entry(call, id, status)>>
              ELSE Append(log, Entry(call, id, status))
    /\ called' = called \cup {call}
    /\ faults' = IF status = "200" THEN faults ELSE faults + 1

NoHist == [first |-> "none", ok |-> FALSE, task |-> "none"]

\* ------------------------------------------------ the router's vocabulary
\* The handlers are the real ones or stubs put in their place.
Stubbed == handlers # "real"

\* langgraph.graph.END, the terminal sentinel.
END == "END"

\* The capability names, in the order coordinator_agent tests them.
Names == <<"route_optimizer", "fleet_monitor", "data_retriever", "notification">>

NameSet == {Names[j] : j \in 1..Len(Names)}

\* What a handler can return as next: a capability name, END, or a value
\* that is none of them ("" stands for every such value).
NextValues == NameSet \cup {END, ""}

\* An input text is held as the set of keyword classes it contains:
\*   "route"   one of route / path / delivery
\*   "fleet"   one of fleet / vehicle / driver
\*   "weather" one of weather / traffic
\*   "condition"
\*   "notify"  one of notify / alert / send
Inputs == {{}, {"notify"}, {"weather", "notify"}}

Roles == {"admin", "driver"}

\* A session key "session_<t>_<h>": t the second of its creation and h the
\* hash of the input; a key chosen by the client has t = -1.
ClientKey == [t |-> 0 - 1, h |-> {}]

GeneratedKey(t, input) == [t |-> t, h |-> input]

\* A text: the completion written by `by` (a handler, "fallback", the fixed
\* "apology") or the user's input, during request number req.
Text(req, by) == [req |-> req, by |-> by]

Message(role, content) == [role |-> role, content |-> content]

\* The context of a new session (process_query).  The keys a handler adds
\* later are held in `keys`, the value of context["next_agent"] with them.
NewContext(role) ==
    [role |-> role, conversation_history |-> <<>>, messages |-> <<>>,
     keys |-> {}, next_agent |-> "unset"]

\* No session yet: the empty store.
NoSessions == [k \in {} |-> NewContext("none")]

\* A request: `given` says whether it carried a session_id, `key` is the
\* session key process_query settled on.
NoRequest == [input |-> {}, role |-> "none", given |-> FALSE, key |-> ClientKey]

NoState == [input |-> "none", next |-> ""]

NoResponse == [type |-> "none", content |-> Text(0, "none"), error |-> "none",
               agent_used |-> "none"]

RouterInit ==
    /\ sessions = NoSessions
    /\ clock = 0
    /\ rpc = "idle"
    /\ request = NoRequest
    /\ state = NoState
    /\ error = "none"
    /\ response = NoResponse
    /\ hops = <<>>
    /\ reqs = 0
    /\ fallbacks = 0

\* integrated_app.run_workflow has not been started.
NoAppResult == [status |-> "none", opportunities |-> <<>>, tasks |-> {},
                highPriorityCount |-> 0, totalPipelineValue |-> 0]

AppOff ==
    /\ mock_mode = TRUE
    /\ last_response = "None"
    /\ app_pc = "off"
    /\ app_opportunities = <<>>
    /\ app_scored = <<>>
    /\ app_result = NoAppResult

\* process_user_message has returned nothing yet.
NoChatReply == [content |-> Text(0, "none"), agent_used |-> "none"]

\* st.session_state.context as initialize_session_state leaves it: the mock
\* data, with none of the keys the handlers read or write (a handler reads
\* the role "unknown", an empty history and no messages from it).
InitialContext == NewContext("unknown")

\* The chat of integrated_app.py before its first message.
ChatFresh ==
    /\ st_context = InitialContext
    /\ st_history = <<>>
    /\ user_message = {}
    /\ chat_next = ""
    /\ chat_reply = NoChatReply
    /\ chat_hops = <<>>
    /\ chat_reqs = 0

\* The chat is not part of the run.
ChatOff == ChatFresh /\ chat_pc = "off"

\* A text given to orchestrator_agent: its words in lower case, and whether
\* it is written with capitals.
Phrase(words, caps) == [words |-> words, caps |-> caps]

\* orchestrator_agent has returned nothing yet.
NoOrchReturn == [next |-> "none", message |-> "none"]

\* orchestrator_agent is not part of the run.
OrchOff ==
    /\ orch_pc = "off"
    /\ input_text = Phrase("", FALSE)
    /\ deal_workflow_result = "unset"
    /\ orch_return = NoOrchReturn

\* ----------------------------------------------------------------- Init
PipelineInit ==
    /\ pc = "fetch"
    /\ attempt = 0
    /\ idx = 0
    /\ retry = 0
    /\ opportunities = <<>>
    /\ scored_opportunities = <<>>
    /\ high_priority_count = 0
    /\ total_pipeline_value = 0
    /\ updated_records = <<>>
    /\ error_records = <<>>
    /\ created_tasks = <<>>
    /\ summary_result = "none"
    /\ result = NoResult
    /\ failedAt = "none"
    /\ log = <<>>
    /\ sleeps = <<>>
    /\ called = {}
    /\ returned = {}
    /\ faults = 0
    /\ payload = <<>>
    /\ hist = <<>>

\* A pipeline run: the router is idle and its handlers are the real ones.
Init ==
    /\ PipelineInit
    /\ RouterInit
    /\ handlers = "real"
    /\ AppOff
    /\ ChatOff
    /\ OrchOff

\* The exception of `stage` reaches run_workflow's "except Exception".
Raise(stage) ==
    /\ pc' = run_workflow(stage, "raise")
    /\ result' = ErrorResult
    /\ failedAt' = stage

\* A stage loop goes round: after a sleep, or directly.
Again(stage, o, fresh) ==
    /\ pc' = run_workflow(stage, o)
    /\ attempt' = attempt + 1
    /\ sleeps' = IF o = "sleep"
                 THEN (IF fresh THEN <<>> ELSE sleeps) \o <<backoff_time(attempt)>>
                 ELSE (IF fresh THEN <<>> ELSE sleeps)
    /\ UNCHANGED <<result, failedAt>>

\* Step 1: one POST /snowflake/query and its handling.  An empty row list
\* runs on without a call: score_opportunities and update_salesforce both
\* return [] for it, and sf_results['updated_records'] then raises.
FetchCall ==
    /\ pc = "fetch"
    /\ \E status \in Outcomes :
        /\ Budget(status)
        /\ Note("Fetch", 0, status, attempt = 0)
        /\ LET o == fetch_opportunities(status, attempt) IN
           CASE o = "return" ->
                  \E n \in 0..MaxOpps :
                    /\ opportunities' = Rows(n)
                    /\ payload' = Rows(n)
                    /\ sleeps' = IF attempt = 0 THEN <<>> ELSE sleeps
                    /\ attempt' = 0
                    /\ IF n = 0
                       THEN /\ Raise("update")
                            /\ returned' = {"fetch", "score", "update"}
                       ELSE /\ pc' = run_workflow("fetch", o)
                            /\ returned' = {"fetch"}
                            /\ UNCHANGED <<result, failedAt>>
             [] o = "raise" ->
                  /\ Raise("fetch")
                  /\ sleeps' = IF attempt = 0 THEN <<>> ELSE sleeps
                  /\ UNCHANGED <<attempt, opportunities, payload, returned>>
             [] OTHER ->
                  /\ Again("fetch", o, attempt = 0)
                  /\ UNCHANGED <<opportunities, payload, returned>>
    /\ UNCHANGED <<idx, retry, scored_opportunities, sf_locals, summary_result, hist>>
    /\ UNCHANGED <<rvars, avars, cvars, ovars>>

\* Step 2: one POST /databricks/score and its handling.
ScoreCall ==
    /\ pc = "score"
    /\ \E status \in Outcomes :
        /\ Budget(status)
        /\ Note("Score", 0, status, attempt = 0)
        /\ LET o == score_opportunities(status, attempt) IN
           CASE o = "return" ->
                  \E p \in [1..Len(opportunities) -> ProbSet] :
                    /\ scored_opportunities' = Scored(opportunities, p)
                    /\ payload' = Scored(opportunities, p)
                    /\ hist' = [i \in 1..Len(opportunities) |-> NoHist]
                    /\ sleeps' = IF attempt = 0 THEN <<>> ELSE sleeps
                    /\ attempt' = 0
                    /\ idx' = 1
                    /\ pc' = run_workflow("score", o)
                    /\ returned' = returned \cup {"score"}
                    /\ UNCHANGED <<result, failedAt>>
             [] o = "raise" ->
                  /\ Raise("score")
                  /\ sleeps' = IF attempt = 0 THEN <<>> ELSE sleeps
                  /\ UNCHANGED <<attempt, idx, scored_opportunities, payload, hist, returned>>
             [] OTHER ->
                  /\ Again("score", o, attempt = 0)
                  /\ UNCHANGED <<idx, scored_opportunities, payload, hist, returned>>
    /\ UNCHANGED <<retry, opportunities, sf_locals, summary_result>>
    /\ UNCHANGED <<rvars, avars, cvars, ovars>>

\* The loop with the return statement indented into its body: it ends
\* after the first opportunity.
MoreOppsReturnInLoop(i, scored) == FALSE

\* "for opp in scored_opportunities": is there an opportunity after the i-th?
MoreOpps(i, scored) == i < Len(scored)

\* The for loop of update_salesforce moves to the next opportunity, or the
\* method returns its dict and run_workflow goes on to Step 4.
NextOpp ==
    /\ idx' = idx + 1
    /\ retry' = 0
    /\ attempt' = 0
    /\ pc' = IF MoreOpps(idx, scored_opportunities)
             THEN "update"
             ELSE run_workflow("update", "return")
    /\ returned' = IF MoreOpps(idx, scored_opportunities)
                   THEN returned
                   ELSE returned \cup {"update"}

\* Step 3, first PATCH /salesforce/opportunity/{id} of the current one.
UpdateCall ==
    /\ pc = "update"
    /\ \E status \in Outcomes :
        LET opp == scored_opportunities[idx]
            b == UpdateBranch(status) IN
        /\ Budget(status)
        /\ Note("UpdateRecord", opp.id, status, TRUE)
        /\ sleeps' = <<>>
        /\ hist' = [hist EXCEPT ![idx].first = status, ![idx].ok = (status = "200")]
        /\ updated_records' =
              IF b = "updated" THEN Append(updated_records, opp.id) ELSE updated_records
        /\ error_records' =
              IF b = "error" \/ (b = "retry" /\ max_retries = 0)
              THEN Append(error_records, opp.id) ELSE error_records
        /\ CASE b = "updated" -> /\ pc' = "task"
                                 /\ UNCHANGED <<idx, retry, attempt, returned>>
             [] b = "retry" /\ max_retries > 0 -> /\ pc' = "retry"
                                                  /\ retry' = 0
                                                  /\ UNCHANGED <<idx, attempt, returned>>
             [] OTHER -> NextOpp
    /\ UNCHANGED <<opportunities, scored_opportunities, high_priority_count,
                   total_pipeline_value, created_tasks, summary_result, result,
                   failedAt, payload>>
    /\ UNCHANGED <<rvars, avars, cvars, ovars>>

\* Step 3, POST /salesforce/task after a first PATCH that answered 200,
\* then the high-priority bookkeeping of the same branch.
TaskCall ==
    /\ pc = "task"
    /\ \E status \in Outcomes :
        LET opp == scored_opportunities[idx]
            b == TaskBranch(status) IN
        /\ Budget(status)
        /\ Note("CreateFollowUp", opp.id, status, FALSE)
        /\ hist' = [hist EXCEPT ![idx].task = status]
        /\ created_tasks' =
              IF b = "created" THEN Append(created_tasks, opp.id) ELSE created_tasks
        /\ error_records' =
              IF b = "error" THEN Append(error_records, opp.id) ELSE error_records
        /\ high_priority_count' =
              IF Tracked(opp, b) THEN high_priority_count + 1 ELSE high_priority_count
        /\ total_pipeline_value' =
              IF Tracked(opp, b) THEN total_pipeline_value + opp.amount
              ELSE total_pipeline_value
        /\ NextOpp
    /\ UNCHANGED <<opportunities, scored_opportunities, updated_records,
                   summary_result, result, failedAt, sleeps, payload>>
    /\ UNCHANGED <<rvars, avars, cvars, ovars>>

\* Step 3, one round of the inline retry loop after a first PATCH that
\* answered 5xx: the sleep, then the PATCH again.
RetryCall ==
    /\ pc = "retry"
    /\ \E status \in Outcomes :
        LET opp == scored_opportunities[idx]
            b == RetryBranch(status, retry) IN
        /\ Budget(status)
        /\ sleeps' = Append(sleeps, backoff_time(retry))
        /\ Note("UpdateRecord", opp.id, status, FALSE)
        /\ hist' = [hist EXCEPT ![idx].ok = (status = "200")]
        /\ updated_records' =
              IF b = "updated" THEN Append(updated_records, opp.id) ELSE updated_records
        /\ error_records' =
              IF b = "error" THEN Append(error_records, opp.id) ELSE error_records
        /\ IF b = "again"
           THEN /\ retry' = retry + 1
                /\ UNCHANGED <<pc, idx, attempt, returned>>
           ELSE NextOpp
    /\ UNCHANGED <<opportunities, scored_opportunities, high_priority_count,
                   total_pipeline_value, created_tasks, summary_result, result,
                   failedAt, payload>>
    /\ UNCHANGED <<rvars, avars, cvars, ovars>>

\* Step 4: one POST /snowflake/insert and its handling; on a 200 answer
\* run_workflow builds and returns the dict of Step 5.
SummaryCall ==
    /\ pc = "summary"
    /\ \E status \in Outcomes :
        /\ Budget(status)
        /\ Note("WriteSummary", 0, status, attempt = 0)
        /\ LET o == write_summary(status, attempt) IN
           CASE o = "return" ->
                  /\ summary_result' = "ok"
                  /\ sleeps' = IF attempt = 0 THEN <<>> ELSE sleeps
                  /\ pc' = run_workflow("summary", o)
                  /\ result' = SuccessResult(scored_opportunities, created_tasks,
                                             high_priority_count,
                                             total_pipeline_value, error_records)
                  /\ returned' = returned \cup {"summary"}
                  /\ UNCHANGED <<attempt, failedAt>>
             [] o = "raise" ->
                  /\ Raise("summary")
                  /\ sleeps' = IF attempt = 0 THEN <<>> ELSE sleeps
                  /\ UNCHANGED <<attempt, summary_result, returned>>
             [] OTHER ->
                  /\ Again("summary", o, attempt = 0)
                  /\ UNCHANGED <<summary_result, returned>>
    /\ UNCHANGED <<idx, retry, opportunities, scored_opportunities, sf_locals,
                   payload, hist>>
    /\ UNCHANGED <<rvars, avars, cvars, ovars>>

Next ==
    \/ FetchCall
    \/ ScoreCall
    \/ UpdateCall
    \/ TaskCall
    \/ RetryCall
    \/ SummaryCall

Spec == Init /\ [][Next]_vars

\* The run when every external call answers or raises: the coroutine is
\* resumed after each call, so it always takes its next step.
LiveSpec == Spec /\ WF_vars(Next)

\* --------------------------------------------------------------- typing
TypeOK ==
    /\ pc \in {"fetch", "score", "update", "task", "retry", "summary", "done"}
    /\ attempt \in 0..max_retries
    /\ retry \in 0..max_retries
    /\ faults \in 0..MaxFaults
    /\ Len(log) <= max_retries + 1
    /\ result.status \in {"none", "success", "error"}

\* ------------------------------------------------- vocabulary of the claims
StageCalls == {"Fetch", "Score", "WriteSummary"}

StageOf(call) ==
    CASE call = "Fetch" -> "fetch"
      [] call = "Score" -> "score"
      [] call = "WriteSummary" -> "summary"
      [] OTHER -> "update"

\* The call site whose calls `log` holds.
Site == IF log = <<>> THEN "none" ELSE log[1].call

\* 5xx answers and transport exceptions.
Retriable == {"5xx", "exc"}

AllRetriable(s) == \A j \in 1..Len(s) : s[j].status \in Retriable

Count(s, x) == Cardinality({j \in 1..Len(s) : s[j] = x})

N == Len(scored_opportunities)

HighPriority == {i \in 1..N : scored_opportunities[i].winProbability > HighPriorityThreshold}

RECURSIVE SumAmounts(_)
SumAmounts(S) ==
    IF S = {} THEN 0
    ELSE LET i == CHOOSE x \in S : TRUE
         IN scored_opportunities[i].amount + SumAmounts(S \ {i})

\* ---------------------------------------------------------------------- C1
\* C1: once Fetch, Score or WriteSummary has failed unrecoverably (its last
\* permitted call did not answer 200, so its exception reaches run_workflow),
\* the run is over with status "error" and no call of any later stage has
\* been made or is made; a Score stage that failed leaves UpdateRecord,
\* CreateFollowUp and WriteSummary uncalled.
C1_AbortStopsLaterStages ==
    /\ \A c \in StageCalls :
          (Site = c /\ Len(log) = max_retries + 1 /\ log[Len(log)].status # "200")
             => failedAt = StageOf(c)
    /\ failedAt # "none" => (pc = "done" /\ result.status = "error")
    /\ failedAt = "fetch" => called \subseteq {"Fetch"}
    /\ failedAt = "score" => called \subseteq {"Fetch", "Score"}
    /\ failedAt = "summary" => Site = "WriteSummary"

\* A Score stage that answered nothing but 4xx has failed.
C1_Witness ==
    /\ failedAt = "score"
    /\ Site = "Score"
    /\ \A j \in 1..Len(log) : log[j].status = "4xx"

\* ---------------------------------------------------------------------- C2
\* C2: when the first call of Fetch, Score or WriteSummary answers 4xx, the
\* stage has made exactly that one call, has not slept, and has failed.
C2_FourXXNotRetried ==
    \A c \in StageCalls :
        (Site = c /\ log[1].status = "4xx")
           => (Len(log) = 1 /\ sleeps = <<>> /\ failedAt = StageOf(c))

\* ---------------------------------------------------------------------- C3
\* C3: a stage whose call failed k <= max_retries times with 5xx or a
\* transport exception, and nothing else, has not given up (the call is made
\* again); and when the next answer is 200 the stage has returned that
\* answer's payload after exactly k+1 calls.
C3_RetryThenSuccess ==
    \A c \in StageCalls :
        Site = c =>
          /\ (AllRetriable(log) /\ Len(log) <= max_retries)
                => (pc = StageOf(c) /\ failedAt = "none" /\ attempt = Len(log))
          /\ (log[Len(log)].status = "200" /\ AllRetriable(SubSeq(log, 1, Len(log) - 1)))
                => /\ StageOf(c) \in returned
                   /\ pc # StageOf(c)
                   /\ c = "Fetch" => opportunities = payload
                   /\ c = "Score" => scored_opportunities = payload
                   /\ c = "WriteSummary" =>
                         (summary_result = "ok" /\ result.status = "success")

\* Fetch answered 5xx, raised, then answered 200 with rows.
C3_Witness ==
    /\ Site = "Fetch"
    /\ Len(log) = max_retries + 1
    /\ log[1].status = "5xx"
    /\ log[2].status = "exc"
    /\ log[3].status = "200"
    /\ pc = "score"
    /\ opportunities # <<>>

\* ---------------------------------------------------------------------- C4
\* C4: a stage all of whose calls failed with 5xx or a transport exception
\* makes max_retries + 1 = 3 calls, never a 4th, and then has raised: the run
\* is over with status "error" and the stage has returned no value.
C4_ExhaustionRaises ==
    \A c \in StageCalls :
        (Site = c /\ AllRetriable(log)) =>
          /\ Len(log) <= max_retries + 1
          /\ Len(log) = max_retries + 1 =>
                /\ pc = "done"
                /\ failedAt = StageOf(c)
                /\ result.status = "error"
                /\ StageOf(c) \notin returned
          /\ Len(log) < max_retries + 1 => (pc = StageOf(c) /\ failedAt = "none")

\* WriteSummary failed three times, with a 5xx and with exceptions.
C4_Witness ==
    /\ Site = "WriteSummary"
    /\ Len(log) = max_retries + 1
    /\ AllRetriable(log)
    /\ log[1].status = "5xx"
    /\ log[3].status = "exc"
    /\ failedAt = "summary"

\* ---------------------------------------------------------------------- C5
\* The opportunities whose first UpdateRecord answered 4xx.
Refused == {i \in 1..N : hist[i].first = "4xx"}

\* No call of the run failed but the first UpdateRecord of `Refused`.
OnlyRefusals == faults = Cardinality(Refused)

\* C5: when UpdateRecord answers 4xx for the ids of a set E and every other
\* call answers 200, the run returns "success", updated-records has n - |E|
\* entries (the ids outside E, once each, in order) and the error list holds
\* exactly the ids of E, once each.
C5_PerRecordRefusal ==
    /\ (pc = "done" /\ OnlyRefusals /\ N >= 1) => result.status = "success"
    /\ (result.status = "success" /\ OnlyRefusals) =>
          /\ Len(updated_records) = N - Cardinality(Refused)
          /\ Len(result.errors) = Cardinality(Refused)
          /\ \A i \in 1..N :
                LET id == scored_opportunities[i].id IN
                /\ Count(result.errors, id) = (IF i \in Refused THEN 1 ELSE 0)
                /\ Count(updated_records, id) = (IF i \in Refused THEN 0 ELSE 1)

\* Two opportunities, the first refused with 4xx, the second updated.
C5_Witness ==
    /\ result.status = "success"
    /\ OnlyRefusals
    /\ N = 2
    /\ Refused = {1}
    /\ result.errors = <<1>>
    /\ updated_records = <<2>>

\* ---------------------------------------------------------------------- C6
\* C6: for a non-empty scored list, whatever UpdateRecord and CreateFollowUp
\* answer, update_salesforce never raises: it goes through every
\* opportunity, returns, and WriteSummary is attempted before the run ends.
C6_UpdateNeverAborts ==
    /\ failedAt = "update" => N = 0
    /\ pc \in {"update", "task", "retry"} =>
          (idx \in 1..N /\ \A i \in 1..(idx - 1) : hist[i].first # "none")
    /\ ("update" \in returned /\ N >= 1) =>
          /\ \A i \in 1..N : hist[i].first # "none"
          /\ pc \in {"summary", "done"}
    /\ (pc = "done" /\ N >= 1) => "WriteSummary" \in called
    /\ "WriteSummary" \in called => "update" \in returned

\* WriteSummary was reached although an UpdateRecord raised, a
\* CreateFollowUp raised and nothing was updated for one opportunity.
C6_Witness ==
    /\ "WriteSummary" \in called
    /\ N = 2
    /\ hist[1].task = "exc"
    /\ hist[2].first \in {"exc", "5xx"}
    /\ ~hist[2].ok

\* ---------------------------------------------------------------------- C7
\* Opportunities for which some UpdateRecord call (first or retry) answered 200.
Updated == {i \in 1..N : hist[i].ok}

\* C7: in a successful run totalPipelineValue is the sum of the amounts of
\* the opportunities whose UpdateRecord succeeded, on the first attempt or on
\* a retry, and whose winProbability is above 0.8.
C7_TotalOverUpdatedHighPriority ==
    result.status = "success" =>
        result.totalPipelineValue = SumAmounts(Updated \cap HighPriority)

\* ---------------------------------------------------------------------- C8
\* C8: in a successful run highPriorityCount is the number of scored
\* opportunities with winProbability > 0.8, whatever their UpdateRecord and
\* CreateFollowUp calls answered.
C8_CountOverScored ==
    result.status = "success" =>
        result.highPriorityCount = Cardinality(HighPriority)

\* ---------------------------------------------------------------------- C9
\* Every opportunity has had its UpdateRecord calls, and none is pending.
UpdatesComplete ==
    /\ pc \notin {"update", "retry"}
    /\ \A i \in 1..N : hist[i].first # "none"

C10_UpdateRetry ==
    (Site = "UpdateRecord" /\ log[1].status = "5xx") =>
        LET id == log[1].id
            k == Len(log) - 1
            open == pc = "retry" /\ scored_opportunities[idx].id = id
            won == \E j \in 2..Len(log) : log[j].status = "200"
        IN  /\ k <= max_retries
            /\ \A j \in 1..Len(log) : log[j].call = "UpdateRecord" /\ log[j].id = id
            /\ Len(sleeps) = k
            /\ \A j \in 1..k : sleeps[j] = backoff_factor * (2 ^ (j - 1))
            /\ open => /\ ~won
                       /\ k < max_retries
                       /\ retry = k
                       /\ Count(updated_records, id) = 0
                       /\ Count(error_records, id) = 0
            /\ ~open =>
                  /\ k >= 1
                  /\ won => /\ log[Len(log)].status = "200"
                            /\ Count(updated_records, id) = 1
                            /\ Count(error_records, id) = 0
                  /\ ~won => /\ Count(updated_records, id) = 0
                             /\ Count(error_records, id) = 1
                             /\ (k = max_retries \/ log[Len(log)].status = "exc")
                  /\ scored_opportunities[idx - 1].id = id
                  /\ pc = (IF idx <= N THEN "update" ELSE "summary")

\* Both retries were used: 5xx, 5xx again after 1.5 s, 200 after 3 s more.
C10_Witness ==
    /\ Site = "UpdateRecord"
    /\ Len(log) = 3
    /\ log[1].status = "5xx"
    /\ log[2].status = "5xx"
    /\ log[3].status = "200"
    /\ sleeps = <<15, 30>>
    /\ pc # "retry"

\* --------------------------------------------------------------------- C11
\* C11: a transport exception raised by the first UpdateRecord call of an
\* opportunity is retried like a 5xx: after it the inline retry loop is
\* entered and the id is not yet in the error list.
C11_UpdateExceptionRetried ==
    (Site = "UpdateRecord" /\ Len(log) = 1 /\ log[1].status = "exc") =>
        /\ pc = "retry"
        /\ Count(error_records, log[1].id) = 0

\* --------------------------------------------------------------------- C12
\* Opportunities whose CreateFollowUp call was made and failed.
FollowUpFailed == {i \in 1..N : hist[i].task \notin {"none", "200"}}

\* Opportunities whose CreateFollowUp call was made, whatever it answered.
FollowUpMade == {i \in 1..N : hist[i].task # "none"}

\* C12: a failed CreateFollowUp call (non-200 answer or transport exception)
\* does not abort the run, leaves the opportunity out of the error list and
\* in updated-records, and leaves the high-priority count and the pipeline
\* value what a successful follow-up would have made them.
C12_FollowUpBestEffort ==
    /\ failedAt = "update" => N = 0
    /\ \A i \in FollowUpFailed :
          /\ Count(error_records, scored_opportunities[i].id) = 0
          /\ Count(updated_records, scored_opportunities[i].id) = 1
    /\ pc # "task" =>
          /\ high_priority_count = Cardinality(FollowUpMade \cap HighPriority)
          /\ total_pipeline_value = SumAmounts(FollowUpMade \cap HighPriority)

\* --------------------------------------------------------------------- C13
\* C13: once update_salesforce has returned, a CreateFollowUp call has been
\* made for exactly the opportunities whose UpdateRecord succeeded (first
\* attempt or retry) and whose winProbability is above 0.8.
C13_FollowUpsForUpdatedHighPriority ==
    ("update" \in returned /\ N >= 1) =>
        FollowUpMade = Updated \cap HighPriority

\* --------------------------------------------------------------------- C14
\* The sleeps of a call site that slept k times: B, 2B, ..., B * 2^(k-1).
Exponential(k) == [j \in 1..k |-> backoff_factor * (2 ^ (j - 1))]

\* C14: at a call site whose failures so far were all 5xx answers or
\* transport exceptions that were retried, exactly one sleep follows each
\* failed attempt that is followed by another attempt, the i-th (0-based) of
\* B * 2^i = 1.5 * 2^i, and no sleep follows the last attempt.
C14_ExponentialBackoff ==
    /\ \A c \in StageCalls :
          (Site = c /\ AllRetriable(SubSeq(log, 1, Len(log) - 1))
                    /\ log[Len(log)].status \in Retriable \cup {"200"}) =>
             sleeps = Exponential(IF pc = StageOf(c) /\ log[Len(log)].status # "200"
                                  THEN Len(log) ELSE Len(log) - 1)
    /\ (Site = "UpdateRecord" /\ log[1].status = "5xx") =>
          sleeps = Exponential(Len(log) - 1)
    /\ \A j \in 1..Len(sleeps) : sleeps[j] \in {15, 30}

\* Fetch failed three times: it slept 1.5 s and 3 s, and not after the last.
C14_Witness ==
    /\ Site = "Fetch"
    /\ Len(log) = max_retries + 1
    /\ AllRetriable(log)
    /\ failedAt = "fetch"
    /\ sleeps = <<15, 30>>

\* ===================================================================
\* The /query endpoint of src/api.py and the handlers it chains.
\* process_query is a coroutine without a single await, so the event loop
\* runs requests one after the other: a request is begun by Query and is
\* finished by Reply before the next one begins.
\* ===================================================================

MaxRequests == 2

MaxClock == 1

\* coordinator_agent without its else branch: next stays as it came in.
coordinator_agent_no_default(said) ==
    IF "route_optimizer" \in said THEN "route_optimizer"
    ELSE IF "fleet_monitor" \in said THEN "fleet_monitor"
    ELSE IF "data_retriever" \in said THEN "data_retriever"
    ELSE IF "notification" \in said THEN "notification"
    ELSE ""

\* coordinator_agent testing the names from the last to the first.
coordinator_agent_reversed(said) ==
    IF "notification" \in said THEN "notification"
    ELSE IF "data_retriever" \in said THEN "data_retriever"
    ELSE IF "fleet_monitor" \in said THEN "fleet_monitor"
    ELSE IF "route_optimizer" \in said THEN "route_optimizer"
    ELSE "route_optimizer"

\* coordinator_agent: the first capability name found in the completion, in
\* the order of Names; `said` is the set of names the completion mentions.
coordinator_agent(said) ==
    IF "route_optimizer" \in said THEN "route_optimizer"
    ELSE IF "fleet_monitor" \in said THEN "fleet_monitor"
    ELSE IF "data_retriever" \in said THEN "data_retriever"
    ELSE IF "notification" \in said THEN "notification"
    ELSE "route_optimizer"

\* The completions the coordinator's model call can give.
Completions == {{}, {"data_retriever"}, {"notification"},
                {"fleet_monitor", "notification"}, {"route_optimizer", "data_retriever"}}

\* route_optimizer_agent: its next, from the keywords of its input text.
route_optimizer_agent(words) ==
    IF "weather" \in words THEN "data_retriever"
    ELSE IF "notify" \in words THEN "notification"
    ELSE END

\* fleet_monitor_agent: the same three-way choice (the fleet summary it may
\* add to the prompt is not part of the text it tests).
fleet_monitor_agent(words) ==
    IF "weather" \in words THEN "data_retriever"
    ELSE IF "notify" \in words THEN "notification"
    ELSE END

\* data_retriever_agent handing on to the notification capability.
data_retriever_agent_forwards == "notification"

\* data_retriever_agent: its next.
data_retriever_agent == END

\* notification_agent: its next.
notification_agent == END

\* determine_next_agent: the keyword test on the input text.
determine_next_agent(words) ==
    IF "route" \in words THEN "route_optimizer"
    ELSE IF "fleet" \in words THEN "fleet_monitor"
    ELSE IF "weather" \in words \/ "condition" \in words THEN "data_retriever"
    ELSE IF "notify" \in words THEN "notification"
    ELSE "None"

\* Step 2 choosing by the keywords of the input text, as create_response does.
SpecialistFromInput(next_agent) ==
    IF determine_next_agent(request.input) = "None" THEN "route_optimizer"
    ELSE determine_next_agent(request.input)

\* Step 2 of process_with_agents: the handler called for the coordinator's next.
Specialist(next_agent) ==
    IF next_agent = "route_optimizer" THEN "route_optimizer"
    ELSE IF next_agent = "fleet_monitor" THEN "fleet_monitor"
    ELSE IF next_agent = "data_retriever" THEN "data_retriever"
    ELSE IF next_agent = "notification" THEN "notification"
    ELSE "route_optimizer"

\* Step 4 of process_with_agents: where control goes for a next value.
Step4(next) == IF next = "notification" THEN "notification" ELSE "reply"

\* Step 3 of process_with_agents.
Step3(next) == IF next = "data_retriever" THEN "data_retriever" ELSE Step4(next)

\* One handler invocation of the current request: what it was given as
\* completion (the coordinator), and the next it returned or "raise".
Hop(agent, said, next) == [agent |-> agent, said |-> said, next |-> next]

context == sessions[request.key]

\* A handler's store of its output: context["messages"] = messages + [entry].
Store(ctx, agent) ==
    [ctx EXCEPT !.messages = Append(@, Message("assistant", Text(reqs, agent)))]

\* What the named handler returns as next when its model call answers.
Returned(agent, said) ==
    CASE agent = "coordinator" -> coordinator_agent(said)
      [] agent = "route_optimizer" -> route_optimizer_agent(request.input)
      [] agent = "fleet_monitor" -> fleet_monitor_agent(request.input)
      [] agent = "data_retriever" -> data_retriever_agent
      [] agent = "notification" -> notification_agent

\* The handlers' effect when a specialist stores its output before every
\* return, not only before a return of END.
EffectAlwaysStores(ctx, agent, next) ==
    CASE agent = "coordinator" ->
             [ctx EXCEPT !.keys = @ \cup {"routing_reason", "next_agent"},
                         !.next_agent = next]
      [] agent \in {"route_optimizer", "fleet_monitor"} -> Store(ctx, agent)
      [] agent = "data_retriever" ->
             Store([ctx EXCEPT !.keys = @ \cup {"retrieved_data"}], agent)
      [] agent = "notification" ->
             Store([ctx EXCEPT !.keys = @ \cup {"notifications"}], agent)

\* What the named handler does to the context when its model call answers.
Effect(ctx, agent, next) ==
    CASE agent = "coordinator" ->
             [ctx EXCEPT !.keys = @ \cup {"routing_reason", "next_agent"},
                         !.next_agent = next]
      [] agent \in {"route_optimizer", "fleet_monitor"} ->
             IF next = END THEN Store(ctx, agent) ELSE ctx
      [] agent = "data_retriever" ->
             Store([ctx EXCEPT !.keys = @ \cup {"retrieved_data"}], agent)
      [] agent = "notification" ->
             Store([ctx EXCEPT !.keys = @ \cup {"notifications"}], agent)

\* The input a handler hands on: its completion, or the text it was given.
HandedOn(agent, next) ==
    IF agent = "coordinator" THEN state.input
    ELSE IF agent \in {"route_optimizer", "fleet_monitor"} /\ next = END THEN state.input
    ELSE agent

\* After step 1 comes step 2.
StepAfterCoordinator(next) == "specialist"

\* Step 4 as a loop: a next that names a capability is followed again.
StepAfterNotificationLoops(next) == IF next \in NameSet THEN "notification" ELSE "reply"

\* After step 4 process_with_agents returns.
StepAfterNotification(next) == "reply"

\* Where control goes when the call made by `step` has returned next.
After(step, next) ==
    CASE step = "coordinator" -> StepAfterCoordinator(next)
      [] step = "specialist" -> Step3(next)
      [] step = "data_retriever" -> Step4(next)
      [] step = "notification" -> StepAfterNotification(next)

\* A coordinator failure that is logged and passed over.
OnRaiseGoesOn(step) == IF step = "coordinator" THEN "specialist" ELSE "reply"

\* The except clause of each step: return {"error": ...}.
OnRaise(step) == "reply"

\* A handler call.  The real handler either raises at its model call, before
\* it has touched anything, or returns; a stub returns any next value, and a
\* storing stub stores an output of its own as well.  `step` is the step of
\* process_with_agents that makes the call.
Call(agent, step) ==
    \/ /\ ~Stubbed
       /\ error' = agent
       /\ hops' = Append(hops, Hop(agent, {}, "raise"))
       /\ rpc' = OnRaise(step)
       /\ UNCHANGED <<sessions, state>>
    \/ /\ ~Stubbed
       /\ \E said \in (IF agent = "coordinator" THEN Completions ELSE {{}}) :
            LET next == Returned(agent, said) IN
            /\ sessions' = [sessions EXCEPT ![request.key] = Effect(@, agent, next)]
            /\ state' = [input |-> HandedOn(agent, next), next |-> next]
            /\ hops' = Append(hops, Hop(agent, said, next))
            /\ rpc' = After(step, next)
       /\ UNCHANGED error
    \/ /\ Stubbed
       /\ \E next \in NextValues :
            /\ sessions' = IF handlers = "storing stubs"
                           THEN [sessions EXCEPT ![request.key] = Store(@, "stub")]
                           ELSE sessions
            /\ state' = [state EXCEPT !.next = next]
            /\ hops' = Append(hops, Hop(agent, {}, next))
            /\ rpc' = After(step, next)
       /\ UNCHANGED error

Frame == UNCHANGED <<pvars, avars, cvars, ovars, clock, request, response, reqs, handlers, fallbacks>>

\* A store that begins every request on a new context.
SessionEntryAlwaysNew(session_id, role) == NewContext(role)

\* A store that sets the role of the context at every request.
SessionEntryTakesRole(session_id, role) ==
    IF session_id \in DOMAIN sessions THEN [sessions[session_id] EXCEPT !.role = role]
    ELSE NewContext(role)

\* The context a request works on: the stored one, or a new one when the
\* key is not in the store.
SessionEntry(session_id, role) ==
    IF session_id \in DOMAIN sessions THEN sessions[session_id]
    ELSE NewContext(role)

\* process_query up to the call of process_with_agents.
Query ==
    /\ rpc = "idle"
    /\ reqs < MaxRequests
    /\ \E input \in Inputs, role \in Roles, given \in BOOLEAN,
          id \in DOMAIN sessions \cup {ClientKey}, tick \in {0, 1} :
         LET session_id == IF given THEN id ELSE GeneratedKey(clock + tick, input)
             entry == SessionEntry(session_id, role)
         IN
         /\ clock + tick <= MaxClock
         /\ clock' = clock + tick
         /\ reqs' = reqs + 1
         /\ request' = [input |-> input, role |-> role, given |-> given,
                        key |-> session_id]
         /\ sessions' = [k \in DOMAIN sessions \cup {session_id} |->
                IF k = session_id
                THEN [entry EXCEPT !.conversation_history =
                          Append(@, Message("user", Text(reqs + 1, "user")))]
                ELSE sessions[k]]
    /\ state' = [input |-> "user", next |-> ""]
    /\ hops' = <<>>
    /\ error' = "none"
    /\ response' = NoResponse
    /\ fallbacks' = 0
    /\ rpc' = "coordinator"
    /\ UNCHANGED <<pvars, avars, cvars, ovars, handlers>>

\* Step 1.
Coordinator ==
    /\ rpc = "coordinator"
    /\ Call("coordinator", "coordinator")
    /\ Frame

\* Step 2.
SpecialistStep ==
    /\ rpc = "specialist"
    /\ Call(Specialist(state.next), "specialist")
    /\ Frame

\* Step 3.
DataRetriever ==
    /\ rpc = "data_retriever"
    /\ Call("data_retriever", "data_retriever")
    /\ Frame

\* Step 4.
Notification ==
    /\ rpc = "notification"
    /\ Call("notification", "notification")
    /\ Frame

\* create_response.
create_response(content, err) ==
    [type |-> "ai", content |-> content, error |-> err,
     agent_used |-> IF determine_next_agent(request.input) = "None" THEN "coordinator"
                    ELSE determine_next_agent(request.input)]

\* create_error_response.
create_error_response(content, err) ==
    [type |-> "error", content |-> content, error |-> err, agent_used |-> "none"]

\* The success branch without its clearing line.
ClearedNever(ctx) == ctx

\* sessions[session_id]["messages"] = []  (the success branch only).
Cleared(ctx) == [ctx EXCEPT !.messages = <<>>]

\* The rest of process_query, once process_with_agents has returned.
Reply ==
    /\ rpc = "reply"
    /\ \/ /\ error # "none"
          /\ fallbacks' = fallbacks + 1
          /\ \/ /\ sessions' = [sessions EXCEPT ![request.key].conversation_history =
                       Append(@, Message("assistant", Text(reqs, "fallback")))]
                /\ response' = create_response(Text(reqs, "fallback"), error)
             \/ /\ response' = create_error_response(Text(reqs, "failed"), error)
                /\ UNCHANGED sessions
       \/ /\ error = "none"
          /\ UNCHANGED fallbacks
          /\ LET response_content ==
                     IF context.messages # <<>>
                     THEN context.messages[Len(context.messages)].content
                     ELSE Text(reqs, "apology")
             IN
             /\ sessions' = [sessions EXCEPT
                    ![request.key] =
                        [Cleared(@) EXCEPT !.conversation_history =
                            Append(@, Message("assistant", response_content))]]
             /\ response' = create_response(response_content, "none")
    /\ rpc' = "idle"
    /\ UNCHANGED <<pvars, avars, cvars, ovars, clock, request, state, error, hops, reqs, handlers>>

RouterNext ==
    \/ Query
    \/ Coordinator
    \/ SpecialistStep
    \/ DataRetriever
    \/ Notification
    \/ Reply

\* The endpoint under the real handlers or under stub handlers.
RouterStart ==
    /\ PipelineInit
    /\ RouterInit
    /\ handlers \in {"real", "silent stubs", "storing stubs"}
    /\ AppOff
    /\ ChatOff
    /\ OrchOff

RouterSpec == RouterStart /\ [][RouterNext]_vars

\* The endpoint when every call the request makes answers or raises: a
\* request that has begun keeps running (requests still arrive at will).
RouterLive == RouterSpec /\ WF_vars(Coordinator \/ SpecialistStep \/ DataRetriever
                                     \/ Notification \/ Reply)

\* ------------------------------------------------- router claim vocabulary
\* The handlers invoked so far by the current request, in order.
Invoked == [j \in 1..Len(hops) |-> hops[j].agent]

\* The request has been answered.
Answered == rpc = "idle" /\ reqs > 0

\* The handler chain is over and process_query has yet to build the reply.
ChainEnded == rpc = "reply"

\* coordinator, one specialist, at most one data_retriever, at most one
\* notification.
InOrder ==
    /\ Len(hops) <= 4
    /\ Len(hops) >= 1 => Invoked[1] = "coordinator"
    /\ Len(hops) >= 2 => Invoked[2] \in NameSet
    /\ Len(hops) = 3 => Invoked[3] \in {"data_retriever", "notification"}
    /\ Len(hops) = 4 => Invoked[3] = "data_retriever" /\ Invoked[4] = "notification"

\* C15: whatever the handlers return (stubs that always return a
\* non-terminal next included), a request invokes at most 4 handlers, in the
\* order coordinator, one specialist, at most one data_retriever, at most one
\* notification, and it is always answered.
C15_AtMostFourHandlers == [] InOrder /\ (rpc # "idle" ~> rpc = "idle")

\* C15 witness: an answered request of stub handlers that went through all
\* four handlers, the last one still naming a capability.
C15_Witness ==
    /\ Answered
    /\ Stubbed
    /\ Len(hops) = 4
    /\ hops[4].next \in NameSet

\* The response reports an error: an error response, or a reply that
\* carries an error (finish_reason "error").
ReportsError == response.type = "error" \/ response.error # "none"

\* C16: when the chain has used its four hops and the last handler still
\* returned a next that names a capability, the request is answered with a
\* routing error, not with a normal result.
C16_HopLimitReported ==
    (Answered /\ Len(hops) = 4 /\ hops[4].next \in NameSet) => ReportsError

\* The coordinator of the current request has returned (it did not raise).
CoordinatorReturned == Len(hops) >= 1 /\ hops[1].next # "raise"

\* C17 as stated: for an input text with none of the keywords, the
\* specialist is route_optimizer, and next is set after the coordinator hop.
C17_NoKeywordFallback ==
    (~Stubbed /\ request.input = {}) =>
        /\ CoordinatorReturned => hops[1].next \in NameSet
        /\ Len(hops) >= 2 => Invoked[2] = "route_optimizer"

\* C17 amended: the text the router tests is the coordinator's completion,
\* not the input.  When the completion names no capability the specialist
\* is route_optimizer, whatever the input, and after the coordinator hop
\* next always names a capability.
C17_NoNameFallback ==
    ~Stubbed =>
        /\ CoordinatorReturned => hops[1].next \in NameSet
        /\ (CoordinatorReturned /\ hops[1].said = {}) => hops[1].next = "route_optimizer"
        /\ (Len(hops) >= 2 /\ hops[1].said = {}) => Invoked[2] = "route_optimizer"

\* C17 witness: an input with keywords whose completion names no capability
\* has been handed to route_optimizer.
C17_Witness ==
    /\ ~Stubbed
    /\ request.input # {}
    /\ Len(hops) >= 2
    /\ hops[1].said = {}
    /\ Invoked[2] = "route_optimizer"

\* C18: the first handler invoked is the coordinator, and every later one is
\* the handler named by the next that the handler before it returned (after
\* the coordinator, any other value means route_optimizer); the input text
\* plays no part in the choice.
C18_ChosenByNext ==
    /\ Len(hops) >= 1 => Invoked[1] = "coordinator"
    /\ Len(hops) >= 2 =>
           Invoked[2] = IF hops[1].next \in NameSet THEN hops[1].next
                        ELSE "route_optimizer"
    /\ \A j \in 3..Len(hops) : Invoked[j] = hops[j - 1].next

\* C18 witness: a chain of four stub handlers whose coordinator returned a
\* next that names no capability.
C18_Witness ==
    /\ Stubbed
    /\ Len(hops) = 4
    /\ hops[1].next \notin NameSet
    /\ Invoked[2] = "route_optimizer"

\* C19: the real data_retriever and notification handlers return next = END
\* whenever they return, and the one that has run is the last handler
\* invoked in its request.
C19_SideChannelsAreTerminal ==
    ~Stubbed =>
        \A j \in 1..Len(hops) :
            Invoked[j] \in {"data_retriever", "notification"} =>
                /\ hops[j].next \in {END, "raise"}
                /\ j = Len(hops)

\* C19 witness: an answered request whose input asks for weather and for a
\* notification: data_retriever ran third, returned END, and nothing ran
\* after it.
C19_Witness ==
    /\ ~Stubbed
    /\ Answered
    /\ request.input = {"weather", "notify"}
    /\ Len(hops) = 3
    /\ Invoked[3] = "data_retriever"
    /\ hops[3].next = END

\* The output of the handler that ran last in the current request.
LastOutput == Text(reqs, Invoked[Len(hops)])

\* C20: in a cycle of the real handlers in which none raises, at the end of
\* the chain next is END and context.messages holds exactly one entry, the
\* output of the last handler of this cycle, and that output is the content
\* of the response.
C20_OneMessagePerCycle ==
    (~Stubbed /\ error = "none") =>
        /\ ChainEnded =>
               /\ state.next = END
               /\ context.messages = <<Message("assistant", LastOutput)>>
        /\ Answered =>
               /\ response.type = "ai"
               /\ response.content = LastOutput

\* C20 witness: the second cycle on one session, a chain of three handlers
\* none of which raised, has ended.
C20_Witness ==
    /\ ~Stubbed
    /\ error = "none"
    /\ ChainEnded
    /\ reqs = 2
    /\ Len(context.conversation_history) = 3
    /\ Len(hops) = 3

\* No handler of the current request has run yet.
JustBegun == rpc = "coordinator" /\ hops = <<>>

\* C21: with the real handlers, whenever a request has been answered (by a
\* normal reply, a fallback reply or a fallback failure) and whenever the
\* next request starts, context.messages of every session is empty.
C21_MessagesClearedBetweenRequests ==
    (~Stubbed /\ (rpc = "idle" \/ JustBegun)) =>
        \A k \in DOMAIN sessions : sessions[k].messages = <<>>

\* C21 witness: the second request on a session starts after the first one
\* ran its coordinator, had a later handler raise, and lost its fallback too
\* (the history holds the two user entries only).
C21_Witness ==
    /\ ~Stubbed
    /\ JustBegun
    /\ reqs = 2
    /\ "next_agent" \in context.keys
    /\ context.conversation_history =
           <<Message("user", Text(1, "user")), Message("user", Text(2, "user"))>>
    /\ context.messages = <<>>

\* C22: a request that has been answered has added to the history of its
\* session the user entry followed by exactly one assistant entry, the
\* reply that was surfaced.
C22_UserThenAssistant ==
    Answered =>
        LET h == context.conversation_history IN
        /\ Len(h) >= 2
        /\ h[Len(h) - 1] = Message("user", Text(reqs, "user"))
        /\ h[Len(h)] = Message("assistant", response.content)

\* A handler of the current request has raised.
Raised == \E j \in 1..Len(hops) : hops[j].next = "raise"

\* C23: once a handler has raised, it stays the last handler invoked for the
\* request; the fallback completion is called exactly once (and never for a
\* request without a raise); and the request is answered with the fallback
\* text or, when the fallback fails too, with an error response, either one
\* carrying the original error.
C23_RaiseFallsBack ==
    /\ Raised <=> error # "none"
    /\ Raised => hops[Len(hops)].next = "raise" /\ error = Invoked[Len(hops)]
    /\ (Answered /\ Raised) =>
           /\ fallbacks = 1
           /\ response.error = error
           /\ \/ response.type = "ai" /\ response.content = Text(reqs, "fallback")
              \/ response.type = "error" /\ response.content = Text(reqs, "failed")
    /\ ~Raised => fallbacks = 0
    /\ (ChainEnded /\ Raised) => fallbacks = 0

\* C23 witness: the third handler of a request raised, the fallback failed
\* as well, and the request was answered with the error response.
C23_Witness ==
    /\ Answered
    /\ Len(hops) = 3
    /\ hops[3].next = "raise"
    /\ response.type = "error"
    /\ response.error = "data_retriever"

\* C24: a request that carries no session_id starts on a new session: when
\* its first handler is about to run, the history of its session holds its
\* own user entry and nothing of any earlier request.
C24_OmittedIdIsFresh ==
    (JustBegun /\ ~request.given) =>
        context.conversation_history = <<Message("user", Text(reqs, "user"))>>

\* s is a prefix of t.
IsPrefix(s, t) == Len(s) <= Len(t) /\ SubSeq(t, 1, Len(s)) = s

\* C25: every step keeps every key of the store and keeps each entry's
\* history as a prefix of its later history; only the start of a request adds
\* a key, the one of that request, with a history holding just its user
\* entry and with no messages; a request on a known key goes on with the
\* stored entry; and no step touches the entry of another key than the
\* request's own.
C25_LazyStore ==
    [][ /\ DOMAIN sessions \subseteq DOMAIN sessions'
        /\ \A k \in DOMAIN sessions :
               /\ IsPrefix(sessions[k].conversation_history,
                           sessions'[k].conversation_history)
               /\ sessions'[k].role = sessions[k].role
               /\ k # request'.key => sessions'[k] = sessions[k]
        /\ \A k \in DOMAIN sessions' \ DOMAIN sessions :
               /\ reqs' = reqs + 1
               /\ k = request'.key
               /\ sessions'[k].conversation_history =
                      <<Message("user", Text(reqs', "user"))>>
               /\ sessions'[k].messages = <<>>
        /\ (reqs' = reqs + 1 /\ request'.key \in DOMAIN sessions) =>
               sessions'[request'.key] =
                   [sessions[request'.key] EXCEPT !.conversation_history =
                        Append(@, Message("user", Text(reqs', "user")))]
      ]_vars

\* C25 witness: the second request named the key of the first one and goes
\* on with its history: the first request's two entries, then its own.
C25_Witness ==
    /\ JustBegun
    /\ reqs = 2
    /\ request.given
    /\ Cardinality(DOMAIN sessions) = 1
    /\ Len(context.conversation_history) = 3
    /\ context.conversation_history[1] = Message("user", Text(1, "user"))
    /\ context.conversation_history[3] = Message("user", Text(2, "user"))

\* C26: the real handlers leave every context key other than
\* conversation_history and messages as process_query created it: no key is
\* added to a session's context and next_agent is never written.
C26_HandlersOnlyAppend ==
    ~Stubbed =>
        \A k \in DOMAIN sessions :
            /\ sessions[k].keys = {}
            /\ sessions[k].next_agent = "unset"

\* C30: a run in which every external call answered 200 ends with status
\* "success", whatever the number of rows Fetch returned.
C30_AllOkSucceeds ==
    (pc = "done" /\ faults = 0) => result.status = "success"

\* ===================================================================
\* DatabricksAgent (src/agents/databricks_agent.py) scoring a list of
\* opportunities, for its two callers: the scoring loop of
\* integrated_app.run_workflow and the agent's own score_opportunities.
\* Probabilities are held in thousandths while they are computed and in
\* hundredths once rounded; amounts are held in thousands of dollars.
\* ===================================================================

MaxBatch == 3

\* Amounts an opportunity can carry, and those generate_mock_opportunities
\* draws (between 10,000 and 500,000).
Amounts == {50, 800, 1200}

AppAmounts == {a \in Amounts : 10 <= a /\ a <= 500}

Industries == {"Technology", "Manufacturing"}

\* Values of random.uniform(-0.1, 0.1), in thousandths.
Randoms == {0 - 100, 0 - 4, 4, 100}

\* Win probabilities a model response can state, in hundredths.
LlamaProbs == {30, 75}

Max(a, b) == IF a >= b THEN a ELSE b

Min(a, b) == IF a <= b THEN a ELSE b

\* amount_factor = max(0, min(0.3, 1 - amount / 1000000))
amount_factor(amount) == Max(0, Min(300, 1000 - amount))

\* industry_bonus
industry_bonus(industry) ==
    CASE industry = "Technology" -> 200
      [] industry = "Healthcare" -> 150
      [] industry = "Finance" -> 100
      [] industry = "Retail" -> 50
      [] OTHER -> 0

\* The sum without the clamp to [0.1, 0.9].
win_prob_unclamped(amount, industry, rnd) ==
    500 + amount_factor(amount) + industry_bonus(industry) + rnd

\* win_prob = max(0.1, min(0.9, base_prob + amount_factor + industry_bonus + random))
win_prob(amount, industry, rnd) ==
    Max(100, Min(900, 500 + amount_factor(amount) + industry_bonus(industry) + rnd))

\* round(win_prob, 2): thousandths to hundredths, a tie going to the even one.
Round2(m) ==
    LET q == m \div 10
        r == m % 10
    IN IF r < 5 THEN q
       ELSE IF r > 5 THEN q + 1
       ELSE IF q % 2 = 0 THEN q ELSE q + 1

\* The three products of an industry: high, mid and entry tier.
products(industry) ==
    CASE industry = "Technology" -> <<"Cloud Security", "API Manager", "Data Warehouse">>
      [] industry = "Healthcare" ->
             <<"Patient Portal", "Analytics Platform", "Compliance Suite">>
      [] industry = "Finance" -> <<"Trading Platform", "Risk Assessment", "Fraud Detection">>
      [] OTHER -> <<"CRM Enterprise", "Analytics Suite", "Support Package">>

\* The tier is chosen by win_prob before it is rounded.
next_product(industry, p) ==
    IF p > 700 THEN products(industry)[1]
    ELSE IF p > 400 THEN products(industry)[2]
    ELSE products(industry)[3]

\* A scored opportunity; `rnd` and `failed` record, for the claims, the
\* random term that was drawn and whether the scoring call failed.
ScoredOpp(opp, p, product, rnd, failed) ==
    [id |-> opp.id, amount |-> opp.amount, industry |-> opp.industry,
     winProbability |-> p, nextBestProduct |-> product, rnd |-> rnd,
     failed |-> failed]

\* _mock_score_opportunity, for the value rnd of its random term.
mock_score_opportunity(opp, rnd) ==
    ScoredOpp(opp, Round2(win_prob(opp.amount, opp.industry, rnd)),
              next_product(opp.industry, win_prob(opp.amount, opp.industry, rnd)),
              rnd, FALSE)

\* The default score of score_opportunity's except clause and of its
\* unexpected-format branch.
DefaultScore(opp, failed) == ScoredOpp(opp, 50, "Unknown", 0, failed)

\* Lists of n opportunities with identifiers 1..n.
Batches(amounts) ==
    UNION {[1..n -> [amount : amounts, industry : Industries]] : n \in 1..MaxBatch}

WithIds(b) == [i \in 1..Len(b) |-> [id |-> i, amount |-> b[i].amount,
                                    industry |-> b[i].industry]]

\* generate_mock_opportunities makes its first opportunity a Technology
\* deal of at most 50,000.
Generated(b) == b[1].industry = "Technology" /\ b[1].amount <= 50

\* The agent is constructed, with or without a token, and one of the two
\* callers is about to score its list.
AppInit ==
    /\ mock_mode \in BOOLEAN
    /\ last_response = "None"
    /\ app_pc \in {"app", "agent"}
    /\ \E b \in Batches(IF app_pc = "app" THEN AppAmounts ELSE Amounts) :
           /\ app_pc = "app" => Generated(b)
           /\ app_opportunities = WithIds(b)
    /\ app_scored = <<>>
    /\ app_result = NoAppResult

Scoring == app_pc \in {"app", "agent"} /\ Len(app_scored) < Len(app_opportunities)

NextToScore == app_opportunities[Len(app_scored) + 1]

\* score_opportunity in mock mode.
MockScore ==
    /\ Scoring
    /\ mock_mode
    /\ \E rnd \in Randoms :
           app_scored' = Append(app_scored, mock_score_opportunity(NextToScore, rnd))
    /\ last_response' = "mock"
    /\ UNCHANGED <<pvars, rvars, cvars, ovars, mock_mode, app_pc, app_opportunities, app_result>>

\* score_opportunity against the serving endpoint: the response is parsed,
\* or has an unexpected format, or the call fails.
LlamaScore ==
    /\ Scoring
    /\ ~mock_mode
    /\ \/ /\ \E p \in LlamaProbs :
                app_scored' = Append(app_scored, ScoredOpp(NextToScore, p, "Llama", 0, FALSE))
          /\ last_response' = "model"
       \/ /\ app_scored' = Append(app_scored, DefaultScore(NextToScore, FALSE))
          /\ last_response' = "error"
       \/ /\ app_scored' = Append(app_scored, DefaultScore(NextToScore, TRUE))
          /\ last_response' = "error"
    /\ UNCHANGED <<pvars, rvars, cvars, ovars, mock_mode, app_pc, app_opportunities, app_result>>

RECURSIVE SumOfAmounts(_)
SumOfAmounts(scored) ==
    IF scored = <<>> THEN 0
    ELSE scored[1].amount + SumOfAmounts(Tail(scored))

\* The loop is over: run_workflow builds its Salesforce results and returns
\* its dict; score_opportunities returns {"scored": ...}.
ScoringDone ==
    /\ app_pc \in {"app", "agent"}
    /\ Len(app_scored) = Len(app_opportunities)
    /\ IF app_pc = "app"
       THEN /\ app_pc' = "done"
            /\ app_result' =
                  [status |-> "success",
                   opportunities |-> app_scored,
                   tasks |-> {i \in 1..Len(app_scored) : app_scored[i].winProbability > 50},
                   highPriorityCount |->
                       Cardinality({i \in 1..Len(app_scored) :
                                        app_scored[i].winProbability > 70}),
                   totalPipelineValue |-> SumOfAmounts(app_scored)]
       ELSE /\ app_pc' = "returned"
            /\ UNCHANGED app_result
    /\ UNCHANGED <<pvars, rvars, cvars, ovars, mock_mode, last_response, app_opportunities, app_scored>>

AppNext ==
    \/ MockScore
    \/ LlamaScore
    \/ ScoringDone

AppStart ==
    /\ PipelineInit
    /\ RouterInit
    /\ handlers = "real"
    /\ AppInit
    /\ ChatOff
    /\ OrchOff

AppSpec == AppStart /\ [][AppNext]_vars

\* C27: no run of integrated_app.run_workflow returns status "success" with
\* a scored list that holds an opportunity whose scoring call failed.
C27_NoPartialScoring ==
    app_result.status = "success" =>
        \A i \in 1..Len(app_result.opportunities) :
            ~app_result.opportunities[i].failed

\* Further amounts to compare with, in thousands: from 0 to 1,500,000 in
\* steps of 5,000.
AmountGrid == {5 * k : k \in 0..300}

\* C28: every winProbability returned by the mock scoring lies in
\* [0.1, 0.9] after rounding, and with the industry and the random term kept
\* it is no higher for a higher amount and no lower for a lower one.
C28_ProbabilityInRangeAndMonotone ==
    mock_mode =>
        \A i \in 1..Len(app_scored) :
            LET e == app_scored[i] IN
            /\ 10 <= e.winProbability /\ e.winProbability <= 90
            /\ \A a \in Amounts \cup AmountGrid :
                   LET p == Round2(win_prob(a, e.industry, e.rnd)) IN
                   /\ a >= e.amount => p <= e.winProbability
                   /\ a <= e.amount => p >= e.winProbability

\* C28 witness: two mock scores of one industry and one random term: the
\* lower amount's sum was above 0.9 and was clamped, the higher amount got a
\* strictly lower probability.
C28_Witness ==
    /\ mock_mode
    /\ Len(app_scored) >= 2
    /\ app_scored[1].industry = app_scored[2].industry
    /\ app_scored[1].rnd = app_scored[2].rnd
    /\ app_scored[1].amount < app_scored[2].amount
    /\ app_scored[1].winProbability > app_scored[2].winProbability
    /\ win_prob_unclamped(app_scored[1].amount, app_scored[1].industry,
                          app_scored[1].rnd) > 900
    /\ app_scored[1].winProbability = 90

\* C29: two opportunities scored by the mock scoring that have the same
\* industry and the same returned winProbability carry the same
\* nextBestProduct.
C29_ProductByIndustryAndBand ==
    mock_mode =>
        \A i, j \in 1..Len(app_scored) :
            (/\ app_scored[i].industry = app_scored[j].industry
             /\ app_scored[i].winProbability = app_scored[j].winProbability)
            => app_scored[i].nextBestProduct = app_scored[j].nextBestProduct

\* ------------------------------------------------------------ C31
\* The names a completion mentions, as positions in the priority order.
Mentioned(said) == {j \in 1..Len(Names) : Names[j] \in said}

\* The name of highest priority among those mentioned; the first name of
\* the order when none is.
FirstNamed(said) ==
    IF Mentioned(said) = {} THEN Names[1]
    ELSE Names[CHOOSE j \in Mentioned(said) : \A k \in Mentioned(said) : j <= k]

\* C31: whenever the real coordinator_agent returns, its next is one of the
\* four capability names (never END, never empty): the first name the
\* completion mentions, in the order route_optimizer, fleet_monitor,
\* data_retriever, notification, and route_optimizer when it mentions none;
\* context["next_agent"] holds the same value.
C31_CoordinatorPicksFirstNamed ==
    (~Stubbed /\ CoordinatorReturned) =>
        /\ hops[1].next \in NameSet
        /\ hops[1].next = FirstNamed(hops[1].said)
        /\ "next_agent" \in context.keys
        /\ context.next_agent = hops[1].next

\* C31 witness: a completion that mentions two names, fleet_monitor and
\* notification, has been answered with fleet_monitor, the earlier of them.
C31_Witness ==
    /\ ~Stubbed
    /\ CoordinatorReturned
    /\ hops[1].said = {"fleet_monitor", "notification"}
    /\ hops[1].next = "fleet_monitor"
    /\ context.next_agent = "fleet_monitor"

\* ===================================================================
\* The chat of integrated_app.py: process_user_message over the one context
\* of the browser session.

MaxMessages == 2

\* A handler's store of its output into the chat's context.
ChatStore(ctx, agent) ==
    [ctx EXCEPT !.messages = Append(@, Message("assistant", Text(chat_reqs, agent)))]

\* What the named handler returns as next, called on the user's message.
ChatReturned(agent, said) ==
    CASE agent = "coordinator" -> coordinator_agent(said)
      [] agent = "route_optimizer" -> route_optimizer_agent(user_message)
      [] agent = "fleet_monitor" -> fleet_monitor_agent(user_message)
      [] agent = "data_retriever" -> data_retriever_agent
      [] agent = "notification" -> notification_agent

\* What the named handler does to the chat's context when it returns.
ChatEffect(ctx, agent, next) ==
    CASE agent = "coordinator" ->
             [ctx EXCEPT !.keys = @ \cup {"routing_reason", "next_agent"},
                         !.next_agent = next]
      [] agent \in {"route_optimizer", "fleet_monitor"} ->
             IF next = END THEN ChatStore(ctx, agent) ELSE ctx
      [] agent = "data_retriever" ->
             ChatStore([ctx EXCEPT !.keys = @ \cup {"retrieved_data"}], agent)
      [] agent = "notification" ->
             ChatStore([ctx EXCEPT !.keys = @ \cup {"notifications"}], agent)

\* process_user_message returns (content, agent) after adding the content
\* to the conversation history.
ChatReturn(content, agent) ==
    /\ st_history' = Append(st_history, Message("assistant", content))
    /\ chat_reply' = [content |-> content, agent_used |-> agent]
    /\ chat_pc' = "idle"

\* Its except clause.
ChatExcept(agent) ==
    /\ chat_hops' = Append(chat_hops, Hop(agent, {}, "raise"))
    /\ ChatReturn(Text(chat_reqs, "error"), "error")
    /\ UNCHANGED <<st_context, chat_next>>

\* "Extract the message from context": the last message of the context, or
\* the fixed text of the branch.
Extracted(ctx, fixed) ==
    IF ctx.messages # <<>> THEN ctx.messages[Len(ctx.messages)].content
    ELSE Text(chat_reqs, fixed)

\* process_user_message up to its first coordinator call.
ChatMessage ==
    /\ chat_pc = "idle"
    /\ chat_reqs < MaxMessages
    /\ \E input \in Inputs : user_message' = input
    /\ chat_reqs' = chat_reqs + 1
    /\ st_history' = Append(st_history, Message("user", Text(chat_reqs + 1, "user")))
    /\ chat_hops' = <<>>
    /\ chat_next' = ""
    /\ chat_pc' = "coordinator"
    /\ UNCHANGED <<pvars, rvars, avars, ovars, st_context, chat_reply>>

\* coord_result = coordinator_agent(input_state), and the direct reply when
\* its next names nothing to route to.
ChatCoordinator ==
    /\ chat_pc = "coordinator"
    /\ \/ ChatExcept("coordinator")
       \/ \E said \in Completions :
            LET next == ChatReturned("coordinator", said)
                ctx == ChatEffect(st_context, "coordinator", next)
            IN
            /\ st_context' = ctx
            /\ chat_next' = next
            /\ chat_hops' = Append(chat_hops, Hop("coordinator", said, next))
            /\ IF next # "" /\ next # END
               THEN /\ chat_pc' = "specialist"
                    /\ UNCHANGED <<st_history, chat_reply>>
               ELSE ChatReturn(Extracted(ctx, "no route"), "coordinator")
    /\ UNCHANGED <<pvars, rvars, avars, ovars, user_message, chat_reqs>>

\* The handler process_user_message calls for next_agent; any other value
\* calls none.
ChatSpecialistOf(next_agent) ==
    IF next_agent \in NameSet THEN next_agent ELSE "none"

\* agent_result = <the specialized agent>(coord_result).
ChatSpecialist ==
    /\ chat_pc = "specialist"
    /\ LET agent == ChatSpecialistOf(chat_next) IN
       IF agent = "none"
       THEN /\ chat_pc' = "final"
            /\ UNCHANGED <<st_context, st_history, chat_reply, chat_next, chat_hops>>
       ELSE \/ ChatExcept(agent)
            \/ /\ LET next == ChatReturned(agent, {}) IN
                   /\ st_context' = ChatEffect(st_context, agent, next)
                   /\ chat_hops' = Append(chat_hops, Hop(agent, {}, next))
                /\ chat_pc' = "final"
                /\ UNCHANGED <<st_history, chat_reply, chat_next>>
    /\ UNCHANGED <<pvars, rvars, avars, ovars, user_message, chat_reqs>>

\* final_result = coordinator_agent(agent_result), and the reply.
ChatFinal ==
    /\ chat_pc = "final"
    /\ \/ ChatExcept("coordinator")
       \/ \E said \in Completions :
            LET next == ChatReturned("coordinator", said)
                ctx == ChatEffect(st_context, "coordinator", next)
            IN
            /\ st_context' = ctx
            /\ chat_hops' = Append(chat_hops, Hop("coordinator", said, next))
            /\ ChatReturn(Extracted(ctx, "no response"), chat_next)
            /\ UNCHANGED chat_next
    /\ UNCHANGED <<pvars, rvars, avars, ovars, user_message, chat_reqs>>

ChatNext ==
    \/ ChatMessage
    \/ ChatCoordinator
    \/ ChatSpecialist
    \/ ChatFinal

\* The chat alone: the endpoint and the pipelines are not run.
ChatStart ==
    /\ PipelineInit
    /\ RouterInit
    /\ handlers = "real"
    /\ AppOff
    /\ ChatFresh
    /\ chat_pc = "idle"
    /\ OrchOff

ChatSpec == ChatStart /\ [][ChatNext]_vars

\* ------------------------------------------------------------ C32
\* The reply process_user_message has returned for the current message.
ChatAnswered == chat_pc = "idle" /\ chat_reqs > 0

\* C32: the reply returned for a message is a text of that same message: a
\* handler's output appended while it was processed, or one of the fixed
\* texts; never a message left in context["messages"] by an earlier one.
C32_ReplyOfSameRequest ==
    ChatAnswered => chat_reply.content.req = chat_reqs

\* ------------------------------------------------------------ C33
\* OrchestratorAgent.update_salesforce over a scored list when every
\* UpdateRecord and CreateFollowUp call answers 200: the opportunities (by
\* position) it counts as high priority, and the ones it creates a task for.
sf_high_priority(scored) ==
    {i \in 1..Len(scored) : scored[i].winProbability > HighPriorityThreshold}

sf_created_tasks(scored) == {i \in 1..Len(scored) : TRUE}

RECURSIVE sf_total_pipeline_value(_)
sf_total_pipeline_value(scored) ==
    IF scored = <<>> THEN 0
    ELSE (IF scored[1].winProbability > HighPriorityThreshold THEN scored[1].amount ELSE 0)
         + sf_total_pipeline_value(Tail(scored))

\* C33: on the same scored list, with every collaborator call succeeding,
\* integrated_app.run_workflow reports the highPriorityCount and the
\* totalPipelineValue that OrchestratorAgent.run_workflow reports, and
\* creates follow-up tasks for the same opportunities.
C33_PipelinesAgree ==
    app_pc = "done" =>
        /\ app_result.highPriorityCount =
               Cardinality(sf_high_priority(app_result.opportunities))
        /\ app_result.totalPipelineValue =
               sf_total_pipeline_value(app_result.opportunities)
        /\ app_result.tasks = sf_created_tasks(app_result.opportunities)

\* ------------------------------------------------------------ C34
\* The conversation history of the current request's session.
History == context.conversation_history

\* Every request so far was made on the current request's session key.
AllOnOneKey ==
    \A r \in 1..reqs : \E j \in 1..Len(History) :
        History[j] = Message("user", Text(r, "user"))

\* Request r has its assistant entry in the history.
AssistantEntry(r) ==
    \E j \in 1..Len(History) :
        History[j].role = "assistant" /\ History[j].content.req = r

\* C34: when two requests on one session key have been answered by the real
\* handlers, the content returned for the later one is a text of that same
\* request and not the apology, and the user and assistant entries of both
\* requests are in conversation_history.
C34_SameKeyIsolated ==
    (~Stubbed /\ Answered /\ reqs = 2 /\ AllOnOneKey) =>
        /\ response.content.req = reqs
        /\ response.content.by # "apology"
        /\ \A r \in 1..reqs : AssistantEntry(r)

\* ------------------------------------------------------------ C35
\* C35: the role in a session's context is the role of the request that
\* created the session: a step that adds a session stores the role of the
\* request being received, and no step changes the role of a session that
\* exists, so the handlers of a later request with another role read the
\* original one from the context.
C35_RoleOfCreator ==
    [][/\ \A k \in DOMAIN sessions :
            k \in DOMAIN sessions' /\ sessions'[k].role = sessions[k].role
       /\ \A k \in DOMAIN sessions' \ DOMAIN sessions :
            k = request'.key /\ sessions'[k].role = request'.role]_vars

\* C35 witness: a handler of a request has returned while the role of the
\* request differs from the role in the context it works on.
C35_Witness ==
    /\ ~Stubbed
    /\ CoordinatorReturned
    /\ Len(context.conversation_history) >= 3
    /\ request.role # context.role

\* ------------------------------------------------------------ C36
\* The request was answered with a normal reply: no error, no fallback.
Succeeded == Answered /\ response.type = "ai" /\ response.error = "none"

\* C36: the agent_used field of a successful reply names the specialist
\* that the coordinator selected and that processed the request (the second
\* handler invoked).
C36_AgentUsedIsSpecialist ==
    (~Stubbed /\ Succeeded) => response.agent_used = Invoked[2]

\* ===================================================================
\* OrchestratorAgent.orchestrator_agent: the handler that runs the workflow
\* on command.

\* The texts that contain the words "run q2 prioritization".
Commands == {"run q2 prioritization", "please run q2 prioritization now"}

\* The inputs given to the handler.
OrchInputs == {Phrase("run q2 prioritization", FALSE),
               Phrase("please run q2 prioritization now", TRUE),
               Phrase("run q2", TRUE),
               Phrase("hello", FALSE)}

\* str.lower().
lower(text) == [text EXCEPT !.caps = FALSE]

\* "run q2 prioritization" in <text>: the literal is in lower case, so it
\* is found in a text only where the text has no capitals.
has_trigger(text) == text.words \in Commands /\ ~text.caps

\* The test made on the text as it was given.
is_command_as_given(text) == has_trigger(text)

\* if "run q2 prioritization" in input_text.lower()
is_command(text) == has_trigger(lower(text))

\* The message for a workflow result.
response_message(res) ==
    IF res.status = "error" THEN "failed" ELSE "completed successfully"

\* The handler up to its test of the input; the else branch returns at once.
OrchCall ==
    /\ orch_pc = "called"
    /\ IF is_command(input_text)
       THEN /\ orch_pc' = "running"
            /\ UNCHANGED orch_return
       ELSE /\ orch_pc' = "returned"
            /\ orch_return' = [next |-> "END", message |-> "not recognized"]
    /\ UNCHANGED <<pvars, rvars, avars, cvars, input_text, deal_workflow_result>>

\* result = await self.run_workflow(): the steps of the workflow.
OrchWorkflow ==
    /\ orch_pc = "running"
    /\ Next

\* The workflow has returned its dict: the handler stores it in the context
\* and returns.
OrchReturn ==
    /\ orch_pc = "running"
    /\ pc = "done"
    /\ deal_workflow_result' = result
    /\ orch_return' = [next |-> "END", message |-> response_message(result)]
    /\ orch_pc' = "returned"
    /\ UNCHANGED <<pvars, rvars, avars, cvars, input_text>>

OrchNext ==
    \/ OrchCall
    \/ OrchWorkflow
    \/ OrchReturn

OrchStart ==
    /\ PipelineInit
    /\ RouterInit
    /\ handlers = "real"
    /\ AppOff
    /\ ChatOff
    /\ orch_pc = "called"
    /\ input_text \in OrchInputs
    /\ deal_workflow_result = "unset"
    /\ orch_return = NoOrchReturn

OrchSpec == OrchStart /\ [][OrchNext]_vars

\* ------------------------------------------------------------ C37
\* The input holds the words of the command, in whatever case.
Commanded == input_text.words \in Commands

\* C37: orchestrator_agent runs the workflow if and only if the input
\* contains "run q2 prioritization", case-insensitively; for any other input
\* it makes no external call and leaves the context unchanged; whenever it
\* returns, next is "END", and its message says the workflow completed
\* successfully exactly when the run's status is "success".
C37_RunsOnCommandOnly ==
    /\ orch_pc \in {"called", "running", "returned"}
    /\ orch_pc = "running" => Commanded
    /\ ~Commanded => /\ called = {}
                     /\ pc = "fetch"
                     /\ deal_workflow_result = "unset"
    /\ orch_pc = "returned" =>
          /\ orch_return.next = "END"
          /\ Commanded =>
                /\ pc = "done"
                /\ deal_workflow_result = result
                /\ orch_return.message = "completed successfully"
                       <=> result.status = "success"
          /\ ~Commanded => orch_return.message = "not recognized"

\* C37 witness: a command written with capitals has run the workflow to a
\* failure, and the handler has returned the failure message.
C37_Witness ==
    /\ orch_pc = "returned"
    /\ input_text.caps
    /\ Commanded
    /\ result.status = "error"
    /\ orch_return.message = "failed"
    /\ orch_return.next = "END"

\* ------------------------------------------------------------ C38
\* The number of calls of one kind in the log of the current call site.
CallsOf(kind) == Cardinality({j \in 1..Len(log) : log[j].call = kind})

\* The most calls one site makes: the first and max_retries more.
MostCalls == max_retries + 1

\* The calls of each call site are bounded, and a site is not come back to:
\* a stage's site is over when a later stage runs, and the sites of the
\* opportunities follow the order of the scored list.
CallBounds ==
    /\ Site \in StageCalls =>
          /\ \A j \in 1..Len(log) : log[j].call = Site
          /\ Len(log) <= MostCalls
    /\ Site = "Fetch" => pc \in {"fetch", "score", "done"}
    /\ Site = "Score" => pc \in {"score", "update", "done"}
    /\ Site = "WriteSummary" => pc \in {"summary", "done"}
    /\ Site = "UpdateRecord" =>
          /\ pc \in {"update", "task", "retry", "summary"}
          /\ \A j \in 1..Len(log) : log[j].id = log[1].id
          /\ \A j \in 1..Len(log) : log[j].call \in {"UpdateRecord", "CreateFollowUp"}
          /\ CallsOf("UpdateRecord") <= MostCalls
          /\ CallsOf("CreateFollowUp") <= 1
          /\ log[1].id = (IF pc \in {"task", "retry"} THEN scored_opportunities[idx].id
                          ELSE scored_opportunities[idx - 1].id)
    /\ pc = "update" => (idx = 1 <=> Site = "Score")

\* C38: when every external call answers or raises, run_workflow ends with
\* a result, and it makes at most max_retries + 1 = 3 Fetch calls, 3 Score
\* calls and 3 WriteSummary calls, and for each opportunity at most 3
\* UpdateRecord calls and at most 1 CreateFollowUp call.
C38_TerminatesWithinCallBounds ==
    /\ [] CallBounds
    /\ <> (pc = "done" /\ result.status \in {"success", "error"})

\* C38 witness: a run that has ended with a result after an opportunity
\* whose update was retried to success and a summary that took all three
\* of its calls.
C38_Witness ==
    /\ pc = "done"
    /\ result.status = "success"
    /\ Site = "WriteSummary"
    /\ Len(log) = MostCalls
    /\ \E i \in 1..N : hist[i].first = "5xx" /\ hist[i].ok

\* ------------------------------------------------------------ C39
\* update_salesforce has returned for a non-empty scored list.
UpdatesReturned == "update" \in returned /\ N > 0

\* C39: when update_salesforce returns for a non-empty scored list, every
\* scored opportunity's id occurs in exactly one of updated_records and
\* error_records: never in both, never in neither, whatever the
\* UpdateRecord and CreateFollowUp calls answered.
C39_ListsPartitionInput ==
    UpdatesReturned =>
        \A i \in 1..N :
            LET id == scored_opportunities[i].id IN
            Count(updated_records, id) + Count(error_records, id) = 1

====
